---------------------------- MODULE Spec2Model ----------------------------
(***************************************************************************)
(* Model of src/app.py: the DetectionEngine (configuration store and the   *)
(* background detection loop with its start/stop switch), the ingress      *)
(* relay for "process" records and the HTTP routes that drive them.        *)
(*                                                                         *)
(* Request handlers run on their own threads (Callers) and interleave with *)
(* each other and with the loop threads at the granularity of the reads    *)
(* and writes of shared attributes.  Confidences and thresholds are scaled *)
(* by 100 (0.75 -> 75), intervals are in milliseconds.                     *)
(***************************************************************************)
EXTENDS Integers, Sequences, FiniteSets, TLC

\* ------------------------------------------------------------------ bounds
MaxThreads == 2      \* Thread objects that start_detection may create
MaxTicks   == 2      \* loop iterations that may begin in one behaviour

Callers  == {"r1", "r2"}          \* request-handler threads of the server
Worker   == "r1"                  \* the handler of a server that serves one
                                  \* request at a time
Engines  == 1 .. Cardinality(Callers) \* DetectionEngine instances ever built
Threads  == 1 .. MaxThreads
None     == 0                     \* Python's None for engine/thread refs

\* ---------------------------------------------------------------- values
\* A JSON scalar: a number, or something that is not a number (a string).
Num(n) == [t |-> "num", v |-> n]
Str    == [t |-> "str", v |-> 0]
IsNum(x) == x.t = "num"

Confidences == {75, 100}          \* samples of 0.75 + random()*0.25
RandX       == {100, 1400}        \* samples of random.randint(100, 1400)
RandY       == {100, 800}         \* samples of random.randint(100, 800)
RandExtra   == {0, 1, 100}        \* samples of random.randint(0, 100)
RandCount   == 1 .. 3             \* random.randint(1, 3)

\* a record whose center is the corner offset by the full width and height
DetectionCornerCenter(c, x, y, dw, dh) ==
  [label |-> "person", confidence |-> c,
   bounding_box |-> [x |-> x, y |-> y, width |-> 100 + dw, height |-> 150 + dh],
   center |-> [x |-> x + (100 + dw), y |-> y + (150 + dh)]]

\* the record _simulate_detection builds from the values it draws
Detection(c, x, y, dw, dh) ==
  [label |-> "person", confidence |-> c,
   bounding_box |-> [x |-> x, y |-> y, width |-> 100 + dw, height |-> 150 + dh],
   center |-> [x |-> x + (100 + dw) \div 2, y |-> y + (150 + dh) \div 2]]

\* _simulate_detection: an empty batch, or 1..3 records; the batches the
\* loop of the model draws from
SimulateDetection ==
  { <<>>,
    << Detection(75, 100, 100, 0, 0) >>,
    << Detection(100, 100, 800, 1, 0), Detection(75, 1400, 100, 0, 1),
       Detection(100, 1400, 800, 100, 100) >> }

\* the index of the last record of maximal confidence
RECURSIVE BestFromLast(_, _, _)
BestFromLast(det, i, best) ==
  IF i > Len(det) THEN best
  ELSE BestFromLast(det, i + 1,
                    IF det[i].confidence >= det[best].confidence THEN i ELSE best)

\* max(detections, key=confidence): the first record of maximal confidence
RECURSIVE BestFrom(_, _, _)
BestFrom(det, i, best) ==
  IF i > Len(det) THEN best
  ELSE BestFrom(det, i + 1,
                IF det[i].confidence > det[best].confidence THEN i ELSE best)
BestTarget(det) == BestFrom(det, 2, 1)

\* best_target = None; if detections: best_target = max(...)
NoTarget == [label |-> "none"]

\* a selection that breaks ties in favour of the last record
SelectBestLast(det) ==
  IF det = <<>> THEN NoTarget ELSE det[BestFromLast(det, 2, 1)]

\* lines 116-118: what the tick publishes as best_target
SelectBest(det) == IF det = <<>> THEN NoTarget ELSE det[BestTarget(det)]

\* load_configuration with an empty environment
DefaultConfig ==
  [k \in {"ConfidenceThreshold", "DetectionInterval", "FOV"} |->
     CASE k = "ConfidenceThreshold" -> Num(50)
       [] k = "DetectionInterval"   -> Num(50)
       [] k = "FOV"                 -> Num(100)]

\* a merge that admits only the keys the configuration already has
MergeKnownKeys(c, p) ==
  [k \in DOMAIN c |-> IF k \in DOMAIN p THEN p[k] ELSE c[k]]

\* {**c, **p}
Merge(c, p) ==
  [k \in (DOMAIN c) \cup (DOMAIN p) |-> IF k \in DOMAIN p THEN p[k] ELSE c[k]]

OneKey(k, x) == [j \in {k} |-> x]

\* bodies of POST /api/configuration that set an option the loop reads
LoopPartials ==
  { OneKey("ConfidenceThreshold", Num(75)),
    OneKey("ConfidenceThreshold", Str),
    OneKey("DetectionInterval", Num(5000)),
    OneKey("DetectionInterval", Num(-1)) }
\* ... and bodies with other keys, recognized or not, or with several keys
Partials ==
  LoopPartials \cup
  { OneKey("FOV", Num(90)),
    OneKey("Custom", Num(1)),
    Merge(OneKey("ConfidenceThreshold", Num(80)), OneKey("Custom", Str)) }
\* a body whose key is the name of an attribute of the engine
FlagBodies == { OneKey("is_running", Num(0)) }
\* two bodies with disjoint key sets
DisjointBodies == { OneKey("FOV", Num(90)), OneKey("Custom", Num(1)) }
\* a body that is no mapping (null)
NoMapping == OneKey("null", Num(0))
ConfigBodies == Partials \cup {NoMapping}

\* load_configuration under environments that set DETECTION_INTERVAL
EnvironConfigs ==
  { DefaultConfig,
    Merge(DefaultConfig, OneKey("DetectionInterval", Num(-1))) }

\* bodies of POST /api/processes: lists, and one JSON value that is no list
ProcessLists == { <<>>, <<"A", "B">>, <<"C">>, <<"A", "A">>, <<"B", "A">> }
NoList       == <<"{}">>
ProcessBodies == ProcessLists \cup {NoList}

\* ------------------------------------------------------------------ state
VARIABLES
  detection_engine,   \* the global: None or an engine
  engines,            \* number of DetectionEngine instances constructed
  config,             \* self.config of each engine
  is_running,         \* self.is_running of each engine
  detection_thread,   \* self.detection_thread of each engine
  threads,            \* number of Thread objects constructed
  thr,                \* per loop thread: pc, engine, locals
  detection_metrics,  \* the global counters
  bridge_processes,   \* the global stored process list
  req,                \* per request handler: route, pc, locals, response
  ticks,              \* history: loop iterations begun
  emitted,            \* history: socketio.emit calls
  lastSaved,          \* history: merge of the save_configuration arguments
  stopped,            \* history: a stop returned success, no start since
  received,           \* history: body of the last completed processes POST
  sim                 \* a call of _simulate_detection and the selection of
                      \* the best target from the batch it returned

vars == << detection_engine, engines, config, is_running, detection_thread,
           threads, thr, detection_metrics, bridge_processes, req,
           ticks, emitted, lastSaved, stopped, received, sim >>

engineVars == << detection_engine, engines, config, is_running, detection_thread >>
loopVars   == << threads, thr, detection_metrics, ticks >>

NoThread == [pc |-> "new", eng |-> None, det |-> <<>>, tmp |-> 0, dur |-> 0]
IdleReq  == [pc |-> "idle", op |-> "none", self |-> None, body |-> NoMapping,
             data |-> <<>>, loc |-> DefaultConfig, jt |-> None,
             res |-> "none", count |-> 0, flag |-> FALSE, joined |-> FALSE,
             raced |-> FALSE, connected |-> FALSE]

NoCall   == [pc |-> "idle", num |-> 0, detections |-> <<>>, best_target |-> NoTarget]

\* __init__ of the n-th engine
NewEngineState(n) ==
  /\ engines' = n
  /\ config' = [config EXCEPT ![n] = DefaultConfig]
  /\ is_running' = [is_running EXCEPT ![n] = FALSE]
  /\ detection_thread' = [detection_thread EXCEPT ![n] = None]

\* The module is either imported by a WSGI server (no engine yet) or run as
\* a script, where __main__ builds the engine before serving.
Init ==
  /\ detection_engine \in {None, 1}
  /\ engines = detection_engine
  /\ config = [e \in Engines |-> DefaultConfig]
  /\ is_running = [e \in Engines |-> FALSE]
  /\ detection_thread = [e \in Engines |-> None]
  /\ threads = 0
  /\ thr = [t \in Threads |-> NoThread]
  /\ detection_metrics = [total_detections |-> 0, successful_targets |-> 0]
  /\ bridge_processes = <<>>
  /\ req = [c \in Callers |-> IdleReq]
  /\ ticks = 0
  /\ emitted = [detection_update |-> 0, records |-> 0,
                bridge_update |-> [processes |-> <<>>, count |-> 0]]
  /\ lastSaved = [e \in Engines |-> DefaultConfig]
  /\ stopped = [e \in Engines |-> FALSE]
  /\ received = <<>>
  /\ sim = NoCall


\* ------------------------------------------------------- the detection loop
\* Positions of a loop thread inside _detection_loop:
\*   new     Thread object not yet constructed
\*   created constructed by start_detection, not started
\*   check   at `while self.is_running`
\*   m_read  batch drawn; about to read total_detections for `+=`
\*   m_write about to store total_detections
\*   target  about to select the best target and test it
\*   s_write about to store successful_targets
\*   emit    about to emit detection_update and go to sleep
\*   sleep   in time.sleep(DetectionInterval / 1000)
\*   except  in the handler: logged, in time.sleep(0.1)
\*   done    left the loop; the thread has ended
TickPcs  == {"m_read", "m_write", "target", "s_write", "emit"}
AlivePcs == TickPcs \cup {"check", "sleep", "except"}

\* a loop that keeps the configuration it was constructed with
LoopConfigSnapshot(t) == DefaultConfig

\* self.config as the loop reads it (no copy is kept by the loop)
LoopConfig(t) == config[thr[t].eng]

\* a loop that never tests the flag (`while True`)
LoopConditionAlways(t) == TRUE

\* the loop condition: self.is_running
LoopCondition(t) == is_running[thr[t].eng]

\* while self.is_running: ... detections = self._simulate_detection()
LoopCheck(t) ==
  /\ thr[t].pc = "check"
  /\ IF LoopCondition(t)
     THEN /\ ticks < MaxTicks
          /\ ticks' = ticks + 1
          /\ \E det \in SimulateDetection :
               thr' = [thr EXCEPT ![t].pc = "m_read", ![t].det = det]
     ELSE /\ thr' = [thr EXCEPT ![t].pc = "done"]
          /\ UNCHANGED ticks
  /\ UNCHANGED << engineVars, threads, detection_metrics, bridge_processes,
                  req, emitted, lastSaved, stopped, received, sim >>

\* detection_metrics["total_detections"] += len(detections): the load
LoopMetricsRead(t) ==
  /\ thr[t].pc = "m_read"
  /\ thr' = [thr EXCEPT ![t].pc = "m_write",
                        ![t].tmp = detection_metrics.total_detections]
  /\ UNCHANGED << engineVars, threads, detection_metrics, ticks,
                  bridge_processes, req, emitted, lastSaved, stopped, received, sim >>

\* ... and the store
LoopMetricsWrite(t) ==
  /\ thr[t].pc = "m_write"
  /\ detection_metrics' =
       [detection_metrics EXCEPT !.total_detections = thr[t].tmp + Len(thr[t].det)]
  /\ thr' = [thr EXCEPT ![t].pc = "target", ![t].tmp = 0]
  /\ UNCHANGED << engineVars, threads, ticks, bridge_processes, req,
                  emitted, lastSaved, stopped, received, sim >>

\* best_target = max(...); if best_target["confidence"] > threshold: the
\* comparison raises TypeError when the threshold is not a number
LoopTarget(t) ==
  /\ thr[t].pc = "target"
  /\ LET det == thr[t].det
         th  == LoopConfig(t)["ConfidenceThreshold"]
     IN  thr' = IF det = <<>>
                THEN [thr EXCEPT ![t].pc = "emit"]
                ELSE IF ~IsNum(th)
                THEN [thr EXCEPT ![t].pc = "except", ![t].det = <<>>]
                ELSE IF SelectBest(det).confidence > th.v
                THEN [thr EXCEPT ![t].pc = "s_write",
                                 ![t].tmp = detection_metrics.successful_targets]
                ELSE [thr EXCEPT ![t].pc = "emit"]
  /\ UNCHANGED << engineVars, threads, detection_metrics, ticks,
                  bridge_processes, req, emitted, lastSaved, stopped, received, sim >>

\* detection_metrics["successful_targets"] += 1: the store
LoopSuccessWrite(t) ==
  /\ thr[t].pc = "s_write"
  /\ detection_metrics' =
       [detection_metrics EXCEPT !.successful_targets = thr[t].tmp + 1]
  /\ thr' = [thr EXCEPT ![t].pc = "emit", ![t].tmp = 0]
  /\ UNCHANGED << engineVars, threads, ticks, bridge_processes, req,
                  emitted, lastSaved, stopped, received, sim >>

\* socketio.emit('detection_update', ...); time.sleep(interval / 1000.0):
\* the division raises TypeError for a non-number, sleep raises ValueError
\* for a negative length
LoopEmit(t) ==
  /\ thr[t].pc = "emit"
  /\ emitted' = [emitted EXCEPT !.detection_update = @ + 1,
                                !.records = @ + Len(thr[t].det)]
  /\ LET iv == LoopConfig(t)["DetectionInterval"]
     IN  thr' = IF IsNum(iv) /\ iv.v >= 0
                THEN [thr EXCEPT ![t].pc = "sleep", ![t].det = <<>>, ![t].dur = iv.v]
                ELSE [thr EXCEPT ![t].pc = "except", ![t].det = <<>>]
  /\ UNCHANGED << engineVars, threads, detection_metrics, ticks,
                  bridge_processes, req, lastSaved, stopped, received, sim >>

\* a loop that tests the flag only after an error: the end of the sleep
\* leads straight into the next tick
LoopWakeIntoTick(t) ==
  /\ thr[t].pc = "sleep"
  /\ ticks < MaxTicks
  /\ ticks' = ticks + 1
  /\ \E det \in SimulateDetection :
       thr' = [thr EXCEPT ![t].pc = "m_read", ![t].det = det, ![t].dur = 0]
  /\ UNCHANGED << engineVars, threads, detection_metrics,
                  bridge_processes, req, emitted, lastSaved, stopped, received, sim >>

\* the sleep ends
LoopWake(t) ==
  /\ thr[t].pc = "sleep"
  /\ thr' = [thr EXCEPT ![t].pc = "check", ![t].dur = 0]
  /\ UNCHANGED << engineVars, threads, detection_metrics, ticks,
                  bridge_processes, req, emitted, lastSaved, stopped, received, sim >>

\* a handler outside the `while`: the first error ends the thread
LoopExceptFatal(t) ==
  /\ thr[t].pc = "except"
  /\ thr' = [thr EXCEPT ![t].pc = "done", ![t].tmp = 0]
  /\ UNCHANGED << engineVars, threads, detection_metrics, ticks,
                  bridge_processes, req, emitted, lastSaved, stopped, received, sim >>

\* a handler that retries the tick without testing the flag again
LoopExceptRetry(t) ==
  /\ thr[t].pc = "except"
  /\ ticks < MaxTicks
  /\ ticks' = ticks + 1
  /\ \E det \in SimulateDetection :
       thr' = [thr EXCEPT ![t].pc = "m_read", ![t].det = det, ![t].tmp = 0]
  /\ UNCHANGED << engineVars, threads, detection_metrics,
                  bridge_processes, req, emitted, lastSaved, stopped, received, sim >>

\* except Exception: logger.error(...); time.sleep(0.1)
LoopExcept(t) ==
  /\ thr[t].pc = "except"
  /\ thr' = [thr EXCEPT ![t].pc = "check", ![t].tmp = 0]
  /\ UNCHANGED << engineVars, threads, detection_metrics, ticks,
                  bridge_processes, req, emitted, lastSaved, stopped, received, sim >>

DetectionLoop(t) ==
  \/ LoopCheck(t)
  \/ LoopMetricsRead(t)
  \/ LoopMetricsWrite(t)
  \/ LoopTarget(t)
  \/ LoopSuccessWrite(t)
  \/ LoopEmit(t)
  \/ LoopWake(t)
  \/ LoopExcept(t)

\* ------------------------------------------ one call of _simulate_detection
\* The body of _simulate_detection step by step, with the values of the
\* random module drawn from the samples above, followed by the selection the
\* tick makes from the returned batch.
othersUnchanged ==
  UNCHANGED << engineVars, loopVars, bridge_processes, req, emitted,
               lastSaved, stopped, received >>

\* detections = []; if random.random() < 0.3: num_detections = randint(1, 3)
SimCall ==
  /\ sim.pc = "idle"
  /\ \E hit \in BOOLEAN :
       IF hit
       THEN \E n \in RandCount : sim' = [sim EXCEPT !.pc = "loop", !.num = n]
       ELSE sim' = [sim EXCEPT !.pc = "ret"]
  /\ othersUnchanged

\* one pass of `for _ in range(num_detections)`
SimAppend ==
  /\ sim.pc = "loop"
  /\ Len(sim.detections) < sim.num
  /\ \E c \in Confidences, x \in RandX, y \in RandY, dw \in RandExtra, dh \in RandExtra :
       sim' = [sim EXCEPT !.detections = Append(@, Detection(c, x, y, dw, dh))]
  /\ othersUnchanged

\* return detections
SimReturn ==
  /\ sim.pc = "loop"
  /\ Len(sim.detections) = sim.num
  /\ sim' = [sim EXCEPT !.pc = "ret"]
  /\ othersUnchanged

\* best_target = None; if detections: best_target = max(...)
SimSelect ==
  /\ sim.pc = "ret"
  /\ sim' = [sim EXCEPT !.pc = "selected", !.best_target = SelectBest(sim.detections)]
  /\ othersUnchanged

\* ------------------------------------------------------ request handlers
\* Positions of a request handler:
\*   idle     no request in progress
\*   ret      the response is built (res, ...); about to hand it to the client
\*   new      saw `not detection_engine`; about to build and assign an engine
\*   call     engine assigned; about to read the global and call the method
\*   st_set   start_detection: passed the is_running test
\*   st_new   start_detection: is_running set; about to create the Thread
\*   st_start start_detection: about to set daemon and start the thread
\*   sp_clr   stop_detection: passed the is_running test
\*   sp_join  stop_detection: is_running cleared; about to join
\*   sp_wait  stop_detection: inside join(timeout=1)
\*   cf_write save_configuration: merged dict built; about to assign it
\*   pp_emit  processes POST: list stored; about to emit bridge_update
\*   pp_ret   processes POST: about to build the response

Request(op)   == [IdleReq EXCEPT !.op = op]
Respond(r, x) == [IdleReq EXCEPT !.pc = "ret", !.op = r.op, !.res = x]

\* start calls that will still construct a Thread object
Reserved ==
  Cardinality({d \in Callers : /\ req[d].op = "start"
                               /\ req[d].pc \in {"new", "call", "st_set", "st_new"}})
CanSpawn == threads + Reserved < MaxThreads

\* calls of start_detection on engine e that passed the is_running test and
\* have not set the flag yet
Starting(e) ==
  {d \in Callers : /\ req[d].op = "start" /\ req[d].self = e
                   /\ req[d].pc = "st_set"}

\* detection_engine = DetectionEngine()
NewEngine(c) ==
  /\ req[c].pc = "new"
  /\ detection_engine' = engines + 1
  /\ NewEngineState(engines + 1)
  /\ req' = [req EXCEPT ![c].pc = "call"]
  /\ UNCHANGED << loopVars, bridge_processes, emitted, lastSaved, stopped, received, sim >>

\* a start that answers success on a Running engine
StartDetectionIdempotent(c, r) ==
  LET e == detection_engine
  IN  /\ req' = [req EXCEPT ![c] =
                   IF is_running[e]
                   THEN Respond(r, "started")
                   ELSE [r EXCEPT !.pc = "st_set", !.self = e]]
      /\ stopped' = [stopped EXCEPT ![e] = FALSE]
      /\ UNCHANGED << engineVars, loopVars, bridge_processes, emitted, lastSaved,
                      received, sim >>

\* detection_engine.start_detection(): `if self.is_running: return ...`
StartDetectionTest(c, r) ==
  LET e == detection_engine
  IN  /\ req' = [req EXCEPT ![c] =
                   IF is_running[e]
                   THEN Respond(r, "already_running")
                   ELSE [r EXCEPT !.pc = "st_set", !.self = e,
                                  !.raced = (Starting(e) \ {c}) # {}]]
      /\ stopped' = [stopped EXCEPT ![e] = FALSE]
      /\ UNCHANGED << engineVars, loopVars, bridge_processes, emitted, lastSaved, received, sim >>

\* POST /api/detection/start
RouteStart(c) ==
  /\ req[c].pc = "idle"
  /\ IF detection_engine = None
     THEN /\ CanSpawn
          /\ req' = [req EXCEPT ![c] = [Request("start") EXCEPT !.pc = "new"]]
          /\ UNCHANGED << engineVars, loopVars, bridge_processes, emitted,
                          lastSaved, stopped, received, sim >>
     ELSE /\ is_running[detection_engine] \/ CanSpawn
          /\ StartDetectionTest(c, Request("start"))

StartCall(c) ==
  /\ req[c].pc = "call" /\ req[c].op = "start"
  /\ StartDetectionTest(c, req[c])

\* self.is_running = True
StartSet(c) ==
  /\ req[c].pc = "st_set"
  /\ is_running' = [is_running EXCEPT ![req[c].self] = TRUE]
  /\ req' = [req EXCEPT ![c].pc = "st_new"]
  /\ UNCHANGED << detection_engine, engines, config, detection_thread, loopVars,
                  bridge_processes, emitted, lastSaved, stopped, received, sim >>

\* self.detection_thread = threading.Thread(target=self._detection_loop)
StartNew(c) ==
  /\ req[c].pc = "st_new"
  /\ threads' = threads + 1
  /\ thr' = [thr EXCEPT ![threads + 1] =
               [NoThread EXCEPT !.pc = "created", !.eng = req[c].self]]
  /\ detection_thread' = [detection_thread EXCEPT ![req[c].self] = threads + 1]
  /\ req' = [req EXCEPT ![c].pc = "st_start"]
  /\ UNCHANGED << detection_engine, engines, config, is_running,
                  detection_metrics, ticks, bridge_processes, emitted,
                  lastSaved, stopped, received, sim >>

\* self.detection_thread.daemon = True; self.detection_thread.start():
\* both re-read the attribute, and both raise RuntimeError on a thread that
\* was already started (the route then answers 500)
StartThread(c) ==
  /\ req[c].pc = "st_start"
  /\ LET t == detection_thread[req[c].self]
     IN  IF thr[t].pc = "created"
         THEN /\ thr' = [thr EXCEPT ![t].pc = "check"]
              /\ req' = [req EXCEPT ![c] =
                           [Respond(req[c], "started") EXCEPT !.raced = req[c].raced]]
         ELSE /\ req' = [req EXCEPT ![c] = Respond(req[c], "error500")]
              /\ UNCHANGED thr
  /\ UNCHANGED << engineVars, threads, detection_metrics, ticks,
                  bridge_processes, emitted, lastSaved, stopped, received, sim >>

\* a stop that answers success on a Stopped engine
RouteStopIdempotent(c) ==
  /\ req[c].pc = "idle"
  /\ req' = [req EXCEPT ![c] =
               IF detection_engine = None
               THEN Respond(Request("stop"), "not_initialized")
               ELSE IF ~is_running[detection_engine]
               THEN Respond(Request("stop"), "stopped")
               ELSE [Request("stop") EXCEPT !.pc = "sp_clr",
                                            !.self = detection_engine]]
  /\ UNCHANGED << engineVars, loopVars, bridge_processes, emitted,
                  lastSaved, stopped, received, sim >>

\* POST /api/detection/stop; stop_detection: `if not self.is_running: ...`
RouteStop(c) ==
  /\ req[c].pc = "idle"
  /\ req' = [req EXCEPT ![c] =
               IF detection_engine = None
               THEN Respond(Request("stop"), "not_initialized")
               ELSE IF ~is_running[detection_engine]
               THEN Respond(Request("stop"), "not_running")
               ELSE [Request("stop") EXCEPT !.pc = "sp_clr",
                                            !.self = detection_engine]]
  /\ UNCHANGED << engineVars, loopVars, bridge_processes, emitted,
                  lastSaved, stopped, received, sim >>

\* self.is_running = False
StopClear(c) ==
  /\ req[c].pc = "sp_clr"
  /\ is_running' = [is_running EXCEPT ![req[c].self] = FALSE]
  /\ req' = [req EXCEPT ![c].pc = "sp_join"]
  /\ UNCHANGED << detection_engine, engines, config, detection_thread, loopVars,
                  bridge_processes, emitted, lastSaved, stopped, received, sim >>

\* if self.detection_thread: self.detection_thread.join(timeout=1)
\* (join raises RuntimeError on a thread that was not started yet)
StopJoin(c) ==
  /\ req[c].pc = "sp_join"
  /\ LET e == req[c].self
         t == detection_thread[e]
     IN  IF t = None
         THEN /\ req' = [req EXCEPT ![c] = Respond(req[c], "stopped")]
              /\ stopped' = [stopped EXCEPT ![e] = TRUE]
         ELSE IF thr[t].pc = "created"
         THEN /\ req' = [req EXCEPT ![c] = Respond(req[c], "error500")]
              /\ UNCHANGED stopped
         ELSE /\ req' = [req EXCEPT ![c].pc = "sp_wait", ![c].jt = t]
              /\ UNCHANGED stopped
  /\ UNCHANGED << engineVars, loopVars, bridge_processes, emitted, lastSaved, received, sim >>

\* join(timeout=1) returns: the thread has ended, or the second is over
StopWait(c) ==
  /\ req[c].pc = "sp_wait"
  /\ req' = [req EXCEPT ![c] =
               [Respond(req[c], "stopped") EXCEPT !.joined = (thr[req[c].jt].pc = "done")]]
  /\ stopped' = [stopped EXCEPT ![req[c].self] = TRUE]
  /\ UNCHANGED << engineVars, loopVars, bridge_processes, emitted, lastSaved, received, sim >>

\* return jsonify(detection_engine.config)
GetConfiguration == config[detection_engine]

ConfigGetRead(c, r) ==
  /\ req' = [req EXCEPT ![c] = Respond(r, "config")]
  /\ UNCHANGED << engineVars, loopVars, bridge_processes, emitted,
                  lastSaved, stopped, received, sim >>

\* a save that takes a body that is no mapping for an empty one
SaveConfigurationReadLenient(c, r) ==
  /\ req' = [req EXCEPT ![c] =
               [r EXCEPT !.pc = "cf_write", !.self = detection_engine,
                         !.loc = IF r.body = NoMapping
                                 THEN config[detection_engine]
                                 ELSE Merge(config[detection_engine], r.body)]]
  /\ UNCHANGED << engineVars, loopVars, bridge_processes, emitted,
                  lastSaved, stopped, received, sim >>

\* detection_engine.save_configuration(config): {**self.config, **config}
\* is built first (TypeError if the body is no mapping, answered with 400)
SaveConfigurationRead(c, r) ==
  /\ req' = [req EXCEPT ![c] =
               IF r.body = NoMapping
               THEN Respond(r, "error400")
               ELSE [r EXCEPT !.pc = "cf_write", !.self = detection_engine,
                              !.loc = Merge(config[detection_engine], r.body)]]
  /\ UNCHANGED << engineVars, loopVars, bridge_processes, emitted,
                  lastSaved, stopped, received, sim >>

\* GET /api/configuration
RouteConfigGet(c) ==
  /\ req[c].pc = "idle"
  /\ IF detection_engine = None
     THEN /\ req' = [req EXCEPT ![c] = [Request("cfg_get") EXCEPT !.pc = "new"]]
          /\ UNCHANGED << engineVars, loopVars, bridge_processes, emitted,
                          lastSaved, stopped, received, sim >>
     ELSE ConfigGetRead(c, Request("cfg_get"))

\* POST /api/configuration with a body from the set bodies
RouteConfigPost(c, bodies) ==
  /\ req[c].pc = "idle"
  /\ \E b \in bodies :
       LET r == [Request("cfg_post") EXCEPT !.body = b]
       IN  IF detection_engine = None
           THEN /\ req' = [req EXCEPT ![c] = [r EXCEPT !.pc = "new"]]
                /\ UNCHANGED << engineVars, loopVars, bridge_processes, emitted,
                                lastSaved, stopped, received, sim >>
           ELSE SaveConfigurationRead(c, r)

ConfigCall(c) ==
  /\ req[c].pc = "call" /\ req[c].op \in {"cfg_get", "cfg_post"}
  /\ IF req[c].op = "cfg_get"
     THEN ConfigGetRead(c, req[c])
     ELSE SaveConfigurationRead(c, req[c])

\* a save that also assigns the keys that name an attribute of the engine
SaveConfigurationWriteAttrs(c) ==
  /\ req[c].pc = "cf_write"
  /\ config' = [config EXCEPT ![req[c].self] = req[c].loc]
  /\ is_running' = IF "is_running" \in DOMAIN req[c].body
                   THEN [is_running EXCEPT ![req[c].self] =
                           (req[c].body["is_running"] # Num(0))]
                   ELSE is_running
  /\ lastSaved' = [lastSaved EXCEPT ![req[c].self] = Merge(@, req[c].body)]
  /\ req' = [req EXCEPT ![c] = Respond(req[c], "saved")]
  /\ UNCHANGED << detection_engine, engines, detection_thread,
                  loopVars, bridge_processes, emitted, stopped, received, sim >>

\* self.config = <the merged dict>
SaveConfigurationWrite(c) ==
  /\ req[c].pc = "cf_write"
  /\ config' = [config EXCEPT ![req[c].self] = req[c].loc]
  /\ lastSaved' = [lastSaved EXCEPT ![req[c].self] = Merge(@, req[c].body)]
  /\ req' = [req EXCEPT ![c] = Respond(req[c], "saved")]
  /\ UNCHANGED << detection_engine, engines, is_running, detection_thread,
                  loopVars, bridge_processes, emitted, stopped, received, sim >>

\* GET /api/processes
RouteProcessesGet(c) ==
  /\ req[c].pc = "idle"
  /\ req' = [req EXCEPT ![c] =
               [Respond(Request("proc_get"), "processes") EXCEPT !.data = bridge_processes]]
  /\ UNCHANGED << engineVars, loopVars, bridge_processes, emitted,
                  lastSaved, stopped, received, sim >>

\* a store that drops repeated records
RECURSIVE Unique(_)
Unique(list) ==
  IF list = <<>> THEN <<>>
  ELSE LET front == Unique(SubSeq(list, 1, Len(list) - 1))
           last  == list[Len(list)]
       IN  IF \E i \in 1 .. Len(front) : front[i] = last
           THEN front ELSE Append(front, last)
StoreProcessesUnique(data) == IF data \in ProcessLists THEN Unique(data) ELSE <<>>

\* a store without the isinstance test
StoreProcessesAny(data) == data

\* data if isinstance(data, list) else []
StoreProcesses(data) == IF data \in ProcessLists THEN data ELSE <<>>

\* POST /api/processes: bridge_processes = ...
RouteProcessesPost(c) ==
  /\ req[c].pc = "idle"
  /\ \E b \in ProcessBodies :
       /\ bridge_processes' = StoreProcesses(b)
       /\ req' = [req EXCEPT ![c] =
                    [Request("proc_post") EXCEPT !.pc = "pp_emit", !.data = b]]
  /\ UNCHANGED << engineVars, loopVars, emitted, lastSaved, stopped, received, sim >>

\* socketio.emit('bridge_update', {processes, timestamp, count})
ProcessesEmit(c) ==
  /\ req[c].pc = "pp_emit"
  /\ emitted' = [emitted EXCEPT !.bridge_update =
                   [processes |-> bridge_processes, count |-> Len(bridge_processes)]]
  /\ req' = [req EXCEPT ![c].pc = "pp_ret"]
  /\ UNCHANGED << engineVars, loopVars, bridge_processes, lastSaved, stopped, received, sim >>

\* return jsonify({..., "count": len(bridge_processes)})
ProcessesReturn(c) ==
  /\ req[c].pc = "pp_ret"
  /\ req' = [req EXCEPT ![c] =
               [Respond(req[c], "received") EXCEPT !.count = Len(bridge_processes)]]
  /\ received' = req[c].data
  /\ UNCHANGED << engineVars, loopVars, bridge_processes, emitted,
                  lastSaved, stopped, sim >>

\* a status that reports the module global is_detecting, which nothing sets
RouteStatusStale(c) ==
  /\ req[c].pc = "idle"
  /\ req' = [req EXCEPT ![c] =
               [Respond(Request("status"), "status") EXCEPT
                  !.flag = FALSE,
                  !.count = Len(bridge_processes),
                  !.connected = Len(bridge_processes) > 0]]
  /\ UNCHANGED << engineVars, loopVars, bridge_processes, emitted,
                  lastSaved, stopped, received, sim >>

\* GET /api/status
RouteStatus(c) ==
  /\ req[c].pc = "idle"
  /\ req' = [req EXCEPT ![c] =
               [Respond(Request("status"), "status") EXCEPT
                  !.flag = IF detection_engine # None
                           THEN is_running[detection_engine] ELSE FALSE,
                  !.count = Len(bridge_processes),
                  !.connected = Len(bridge_processes) > 0]]
  /\ UNCHANGED << engineVars, loopVars, bridge_processes, emitted,
                  lastSaved, stopped, received, sim >>

\* a health probe that reports the state of the detection loop
RouteHealthProbe(c) ==
  /\ req[c].pc = "idle"
  /\ req' = [req EXCEPT ![c] =
               Respond(Request("health"),
                       IF \E t \in Threads : thr[t].pc = "except"
                       THEN "degraded" ELSE "healthy")]
  /\ UNCHANGED << engineVars, loopVars, bridge_processes, emitted,
                  lastSaved, stopped, received, sim >>

\* GET /health
RouteHealth(c) ==
  /\ req[c].pc = "idle"
  /\ req' = [req EXCEPT ![c] = Respond(Request("health"), "healthy")]
  /\ UNCHANGED << engineVars, loopVars, bridge_processes, emitted,
                  lastSaved, stopped, received, sim >>

\* the response leaves the handler
Return(c) ==
  /\ req[c].pc = "ret"
  /\ req' = [req EXCEPT ![c] = IdleReq]
  /\ UNCHANGED << engineVars, loopVars, bridge_processes, emitted,
                  lastSaved, stopped, received, sim >>

\* the routes of the detection engine
StartRoutes(c) ==
  \/ RouteStart(c)
  \/ StartSet(c)
  \/ StartNew(c)
  \/ StartThread(c)

StopRoutes(c) ==
  \/ RouteStop(c)
  \/ StopClear(c)
  \/ StopJoin(c)
  \/ StopWait(c)

\* ---------------------------------------------------------- specifications
\* The server handles one request at a time (Worker); the loop threads run
\* alongside it.  The module was imported (no engine yet) or run as a
\* script (engine built by __main__).
Next ==
  \/ StartRoutes(Worker)
  \/ StopRoutes(Worker)
  \/ NewEngine(Worker)
  \/ StartCall(Worker)
  \/ RouteConfigGet(Worker)
  \/ RouteConfigPost(Worker, LoopPartials)
  \/ ConfigCall(Worker)
  \/ SaveConfigurationWrite(Worker)
  \/ Return(Worker)
  \/ \E t \in Threads : DetectionLoop(t)

Spec == Init /\ [][Next]_vars

\* The server runs as a script: the engine exists, configured from the
\* environment.
ScriptInit ==
  /\ detection_engine = 1
  /\ engines = 1
  /\ config \in [Engines -> EnvironConfigs]
  /\ \A e \in Engines : config[e] = config[1]
  /\ is_running = [e \in Engines |-> FALSE]
  /\ detection_thread = [e \in Engines |-> None]
  /\ threads = 0
  /\ thr = [t \in Threads |-> NoThread]
  /\ detection_metrics = [total_detections |-> 0, successful_targets |-> 0]
  /\ bridge_processes = <<>>
  /\ req = [c \in Callers |-> IdleReq]
  /\ ticks = 0
  /\ emitted = [detection_update |-> 0, records |-> 0,
                bridge_update |-> [processes |-> <<>>, count |-> 0]]
  /\ lastSaved = config
  /\ stopped = [e \in Engines |-> FALSE]
  /\ received = <<>>
  /\ sim = NoCall

\* Start and stop requests are handled by concurrent threads.
RaceNext ==
  \/ \E c \in Callers : StartRoutes(c) \/ StopRoutes(c) \/ Return(c)
  \/ \E t \in Threads : DetectionLoop(t)

RaceSpec == ScriptInit /\ [][RaceNext]_vars

\* Start and stop requests one at a time, and every loop thread that can
\* take a step eventually takes one.
ControlNext ==
  \/ StartRoutes(Worker)
  \/ StopRoutes(Worker)
  \/ Return(Worker)
  \/ \E t \in Threads : DetectionLoop(t)

FairSpec ==
  /\ ScriptInit
  /\ [][ControlNext]_vars
  /\ \A t \in Threads : WF_vars(DetectionLoop(t))

\* The same steps without the scheduling assumption.
ControlSpec == ScriptInit /\ [][ControlNext]_vars

\* The configuration routes alone, one request at a time.
ConfigNext ==
  \/ RouteConfigGet(Worker)
  \/ RouteConfigPost(Worker, ConfigBodies)
  \/ NewEngine(Worker)
  \/ ConfigCall(Worker)
  \/ SaveConfigurationWrite(Worker)
  \/ Return(Worker)

ConfigSpec == Init /\ [][ConfigNext]_vars

\* The ingress relay with the status and health routes, one request at a
\* time.
RelayNext ==
  \/ RouteProcessesGet(Worker)
  \/ RouteProcessesPost(Worker)
  \/ ProcessesEmit(Worker)
  \/ ProcessesReturn(Worker)
  \/ RouteStatus(Worker)
  \/ RouteHealth(Worker)
  \/ Return(Worker)

RelaySpec == Init /\ [][RelayNext]_vars

\* The process routes handled by concurrent threads.
RelayRaceNext ==
  \E c \in Callers :
    \/ RouteProcessesGet(c)
    \/ RouteProcessesPost(c)
    \/ ProcessesEmit(c)
    \/ ProcessesReturn(c)
    \/ Return(c)

RelayRaceSpec == Init /\ [][RelayRaceNext]_vars

\* Every route of the server, one request at a time, with the loop threads;
\* the server was imported, or run as a script under either environment.
ServerInit == Init \/ ScriptInit

ServerNext ==
  \/ StartRoutes(Worker)
  \/ StopRoutes(Worker)
  \/ NewEngine(Worker)
  \/ StartCall(Worker)
  \/ RouteConfigGet(Worker)
  \/ RouteConfigPost(Worker, FlagBodies)
  \/ ConfigCall(Worker)
  \/ SaveConfigurationWrite(Worker)
  \/ RouteProcessesGet(Worker)
  \/ RouteProcessesPost(Worker)
  \/ ProcessesEmit(Worker)
  \/ ProcessesReturn(Worker)
  \/ RouteStatus(Worker)
  \/ RouteHealth(Worker)
  \/ Return(Worker)
  \/ \E t \in Threads : DetectionLoop(t)

ServerSpec == ServerInit /\ [][ServerNext]_vars

\* The routes that build the engine on first use (start, configuration),
\* handled by concurrent threads; the loop threads they start have not
\* taken a step yet.
LazyRaceNext ==
  \E c \in Callers :
    \/ StartRoutes(c)
    \/ NewEngine(c)
    \/ StartCall(c)
    \/ RouteConfigGet(c)
    \/ RouteConfigPost(c, DisjointBodies)
    \/ ConfigCall(c)
    \/ SaveConfigurationWrite(c)
    \/ Return(c)

LazyRaceSpec == Init /\ [][LazyRaceNext]_vars

\* Configuration updates handled by concurrent threads on the engine that
\* __main__ built.
ConfigRaceNext ==
  \E c \in Callers :
    \/ RouteConfigGet(c)
    \/ RouteConfigPost(c, DisjointBodies)
    \/ SaveConfigurationWrite(c)
    \/ Return(c)

ConfigRaceSpec == ScriptInit /\ [][ConfigRaceNext]_vars

\* A call of _simulate_detection and the selection from its batch, alone.
SimNext ==
  \/ SimCall
  \/ SimAppend
  \/ SimReturn
  \/ SimSelect

SimSpec == Init /\ [][SimNext]_vars

\* ----------------------------------------------------------------- claims
\* loop threads of engine e that are executing _detection_loop
LoopThreads(e) == {t \in Threads : thr[t].eng = e /\ thr[t].pc \in AlivePcs}

\* C1: every engine has at most one thread executing _detection_loop, also
\* after a stop_detection() whose join timed out is followed by a new
\* start_detection().
C1_AtMostOneLoop == \A e \in Engines : Cardinality(LoopThreads(e)) <= 1

\* C2: of two start_detection() calls that both find the engine Stopped at
\* the same time, the second one answers 'Detection already running': no
\* such call returns anything else.
C2_ExactlyOneStartWins ==
  \A c \in Callers :
    (req[c].pc = "ret" /\ req[c].op = "start" /\ req[c].raced)
      => req[c].res = "already_running"

\* C3 as stated: once stop_detection() has returned success and no
\* start_detection() has begun since, no loop thread of the engine is inside
\* a tick, nothing more is published and the metrics no longer change.
C3_StopWaitsForTick ==
  [][\A e \in Engines :
       /\ stopped'[e] => \A t \in LoopThreads(e)' : thr'[t].pc \notin TickPcs
       /\ (stopped[e] /\ stopped'[e])
            => /\ emitted'.detection_update = emitted.detection_update
               /\ detection_metrics' = detection_metrics]_vars

\* C3 as amended: stop_detection() clears is_running and waits at most one
\* second; after it returned success a loop thread may still finish the tick
\* in flight, but while is_running is false no loop thread begins a tick.
C3_NoNewTickWhileStopped ==
  [][\A t \in Threads :
       (thr[t].pc = "check" /\ thr'[t].pc \in TickPcs) => is_running[thr[t].eng]]_vars

\* a stop has returned success while the loop thread is still inside a tick
C3_Witness ==
  \E t \in Threads :
    /\ thr[t].pc \in TickPcs
    /\ stopped[thr[t].eng] /\ ~is_running[thr[t].eng]
    /\ req[Worker].pc = "ret" /\ req[Worker].res = "stopped"

\* the step in which handler c calls detection_engine.start_detection()
StartCalled(c) ==
  /\ detection_engine # None
  /\ req'[c].op = "start"
  /\ \/ req[c].pc = "idle" /\ req'[c].pc # "idle"
     \/ req[c].pc = "call" /\ req'[c].pc # "call"

\* C4: start_detection() on a Running engine answers 'Detection already
\* running' and changes nothing but the response; on a Stopped engine it
\* goes on to set is_running and answers success.
C4_StartWhileRunning ==
  /\ [][\A c \in Callers :
          /\ (StartCalled(c) /\ is_running[detection_engine])
               => /\ req'[c].pc = "ret" /\ req'[c].res = "already_running"
                  /\ UNCHANGED << engineVars, loopVars, emitted >>
          /\ (StartCalled(c) /\ ~is_running[detection_engine])
               => req'[c].pc = "st_set"
          /\ (req[c].pc = "st_set" /\ req'[c].pc # "st_set")
               => is_running'[req[c].self]
          /\ (req[c].pc = "st_start" /\ req'[c].pc # "st_start")
               => req'[c].res = "started"]_vars
  /\ [](\A c \in Callers :
          (req[c].pc = "ret" /\ req[c].res = "started") => is_running[detection_engine])

\* a start was refused while the loop of the engine is running
C4_Witness ==
  /\ req[Worker].pc = "ret" /\ req[Worker].res = "already_running"
  /\ is_running[detection_engine]
  /\ LoopThreads(detection_engine) # {}

\* the step in which handler c begins POST /api/detection/stop
StopCalled(c) == req[c].pc = "idle" /\ req'[c].op = "stop" /\ req'[c].pc # "idle"

\* C5: a stop on a Stopped engine, or with no engine, answers with a failure
\* and changes nothing but the response; no engine or thread is created.
C5_StopWhileStopped ==
  [][\A c \in Callers :
       (StopCalled(c) /\ (detection_engine = None \/ ~is_running[detection_engine]))
         => /\ req'[c].pc = "ret"
            /\ req'[c].res = IF detection_engine = None
                             THEN "not_initialized" ELSE "not_running"
            /\ UNCHANGED << engineVars, loopVars, emitted, bridge_processes >>]_vars

\* a stop was refused on an engine that had been started and stopped before
C5_Witness ==
  /\ req[Worker].pc = "ret" /\ req[Worker].res = "not_running"
  /\ \E t \in Threads : thr[t].pc = "done"

\* C6: under fair scheduling a loop thread that runs while is_running is
\* false eventually leaves _detection_loop, unless is_running is set again.
C6_LoopExits ==
  \A t \in Threads :
    (thr[t].pc \in AlivePcs /\ ~is_running[thr[t].eng])
      ~> (thr[t].pc = "done" \/ (thr[t].pc \in AlivePcs /\ is_running[thr[t].eng]))

\* the loop thread has left the loop after both of its ticks had raised an
\* error (in the sleep) and a stop was requested
C6_Witness ==
  /\ threads = 1 /\ thr[1].pc = "done"
  /\ ~IsNum(config[thr[1].eng]["DetectionInterval"])
       \/ config[thr[1].eng]["DetectionInterval"].v < 0
  /\ emitted.detection_update = 2
  /\ stopped[thr[1].eng]

\* the outcome of the threshold test of a tick under threshold th
TargetOutcome(det, th) ==
  IF det = <<>> THEN "emit"
  ELSE IF ~IsNum(th) THEN "except"
  ELSE IF det[BestTarget(det)].confidence > th.v THEN "s_write" ELSE "emit"

\* C7: the threshold test and the sleep of every tick use the values of the
\* save_configuration calls completed so far, without a restart of the loop.
C7_LoopReadsSavedConfig ==
  [][\A t \in Threads :
       /\ (thr[t].pc = "target" /\ thr'[t].pc # "target")
            => thr'[t].pc =
                 TargetOutcome(thr[t].det, lastSaved[thr[t].eng]["ConfidenceThreshold"])
       /\ (thr[t].pc = "emit" /\ thr'[t].pc # "emit")
            => LET iv == lastSaved[thr[t].eng]["DetectionInterval"]
               IN  IF IsNum(iv) /\ iv.v >= 0
                   THEN thr'[t].pc = "sleep" /\ thr'[t].dur = iv.v
                   ELSE thr'[t].pc = "except"]_vars

\* the only loop thread ever started sleeps for an interval that was saved
\* while it was running
C7_Witness ==
  /\ threads = 1 /\ thr[1].pc = "sleep" /\ thr[1].dur = 5000
  /\ lastSaved[thr[1].eng]["ConfidenceThreshold"] = Num(75)

\* C8: a tick that raises leaves its thread in the loop, back at the loop
\* condition; the error changes neither is_running nor any request, and no
\* start or stop request is answered with an error.
C8_TickFailureNotFatal ==
  /\ [][\A t \in Threads :
          /\ (thr[t].pc # "except" /\ thr'[t].pc = "except")
               => UNCHANGED << is_running, detection_thread, req >>
          /\ thr[t].pc = "except"
               => /\ thr'[t].pc \in {"except", "check"}
                  /\ thr'[t].pc = "check"
                       => UNCHANGED << is_running, detection_thread, req >>]_vars
  /\ [](\A c \in Callers : req[c].res # "error500")

\* the loop thread is in a tick again after its previous tick had raised
C8_Witness ==
  /\ threads = 1 /\ thr[1].pc \in TickPcs /\ ticks = 2
  /\ is_running[thr[1].eng]
  /\ detection_metrics.total_detections > 0
  /\ emitted.detection_update = 0

\* the step in which save_configuration assigns self.config
Saved(c) == req[c].pc = "cf_write" /\ req'[c].pc # "cf_write"

\* C9: save_configuration(p) on configuration c leaves a configuration that
\* reads p[k] for every key of p and c[k] for every other key of c; every
\* mapping is accepted and no key is ever removed.
C9_MergeRoundTrip ==
  /\ [][\A c \in Callers :
          Saved(c) =>
            LET old == GetConfiguration
                new == GetConfiguration'
                p   == req[c].body
            IN  /\ req'[c].res = "saved"
                /\ DOMAIN new = (DOMAIN old) \cup (DOMAIN p)
                /\ \A k \in DOMAIN p : new[k] = p[k]
                /\ \A k \in (DOMAIN old) \ (DOMAIN p) : new[k] = old[k]]_vars
  /\ [][\A e \in Engines : (DOMAIN config[e]) \subseteq (DOMAIN config'[e])]_vars
  /\ [](\A c \in Callers : req[c].body \in Partials => req[c].res # "error400")

\* an unrecognized key and a recognized one were saved by different requests
\* and both are read back
C9_Witness ==
  /\ detection_engine # None
  /\ req[Worker].pc = "ret" /\ req[Worker].res = "saved"
  /\ "Custom" \in DOMAIN GetConfiguration
  /\ GetConfiguration["Custom"] = Num(1)
  /\ GetConfiguration["FOV"] = Num(90)
  /\ GetConfiguration["DetectionInterval"] = Num(5000)

\* C10: GET /api/processes answers with exactly the list of the most
\* recently completed POST /api/processes whose body was a list.
C10_IngressReplace ==
  \A c \in Callers :
    (req[c].pc = "ret" /\ req[c].op = "proc_get" /\ received \in ProcessLists)
      => req[c].data = received

\* a list with a repeated record is read back after others had been stored
C10_Witness ==
  /\ req[Worker].pc = "ret" /\ req[Worker].op = "proc_get"
  /\ req[Worker].data = <<"A", "A">>
  /\ received = <<"A", "A">>
  /\ emitted.bridge_update.processes = <<"A", "A">>


\* C11: total_detections and successful_targets never decrease from one
\* state to the next, whatever steps of loop threads and of requests
\* interleave.
C11_MetricsMonotone ==
  [][/\ detection_metrics'.total_detections >= detection_metrics.total_detections
     /\ detection_metrics'.successful_targets >= detection_metrics.successful_targets]_vars

\* C12: every POST /api/processes whose body is a list of n records, also
\* one handled while another submission is in progress, publishes a
\* bridge_update with exactly its own records and count n, and answers with
\* count n.
C12_SubmitReportsOwnRecords ==
  [][\A c \in Callers :
       /\ (req[c].pc = "pp_emit" /\ req'[c].pc = "pp_ret"
             /\ req[c].data \in ProcessLists)
            => emitted'.bridge_update =
                 [processes |-> req[c].data, count |-> Len(req[c].data)]
       /\ (req[c].pc = "pp_ret" /\ req'[c].pc = "ret"
             /\ req[c].data \in ProcessLists)
            => req'[c].count = Len(req[c].data)]_vars

\* C13: a tick adds exactly the number of records of its batch to
\* total_detections; it adds exactly 1 to successful_targets if the batch is
\* not empty and its best confidence is strictly above the current
\* ConfidenceThreshold, and leaves successful_targets alone otherwise.
C13_TickCounts ==
  [][/\ \A t \in Threads :
          /\ (thr[t].pc = "m_write" /\ thr'[t].pc # "m_write")
               => detection_metrics'.total_detections =
                    detection_metrics.total_detections + Len(thr[t].det)
          /\ (thr[t].pc = "target" /\ thr'[t].pc # "target")
               => LET th == config[thr[t].eng]["ConfidenceThreshold"]
                  IN  thr'[t].pc = "s_write"
                        <=> /\ thr[t].det # <<>>
                            /\ IsNum(th)
                            /\ \E i \in 1 .. Len(thr[t].det) :
                                 thr[t].det[i].confidence > th.v
          /\ (thr[t].pc = "s_write" /\ thr'[t].pc # "s_write")
               => detection_metrics'.successful_targets =
                    detection_metrics.successful_targets + 1
     /\ detection_metrics'.successful_targets # detection_metrics.successful_targets
          => \E t \in Threads : thr[t].pc = "s_write" /\ thr'[t].pc # "s_write"
     /\ detection_metrics'.total_detections # detection_metrics.total_detections
          => \E t \in Threads : thr[t].pc = "m_write" /\ thr'[t].pc # "m_write"]_vars

\* C14: the best_target a tick publishes is a record of its batch whose
\* confidence is the maximum of the batch, and of several such records the
\* one that comes first; for an empty batch it is null.
C14_BestTargetFirstMax ==
  sim.pc = "selected" =>
    LET det  == sim.detections
        best == sim.best_target
    IN  IF det = <<>>
        THEN best = NoTarget
        ELSE \E i \in 1 .. Len(det) :
               /\ det[i] = best
               /\ \A j \in 1 .. Len(det) : det[j].confidence <= best.confidence
               /\ \A j \in 1 .. (i - 1) : det[j].confidence < best.confidence

\* the second of three records was selected: it ties with the third, a
\* different record, and beats the first
C14_Witness ==
  /\ sim.pc = "selected"
  /\ Len(sim.detections) = 3
  /\ sim.detections[1].confidence = 75
  /\ sim.detections[2].confidence = 100
  /\ sim.detections[3].confidence = 100
  /\ sim.detections[2] # sim.detections[3]
  /\ sim.best_target = sim.detections[2]

\* C15: a POST /api/processes whose JSON body is not a list empties the
\* stored list whatever it held, publishes a bridge_update with an empty
\* list and count 0, and answers success with count 0.
C15_NonListClearsStore ==
  [][\A c \in Callers :
       /\ (req[c].pc = "idle" /\ req'[c].op = "proc_post" /\ req'[c].data = NoList)
            => bridge_processes' = <<>> /\ req'[c].pc = "pp_emit"
       /\ (req[c].pc = "pp_emit" /\ req'[c].pc # "pp_emit" /\ req[c].data = NoList)
            => /\ emitted'.bridge_update = [processes |-> <<>>, count |-> 0]
               /\ bridge_processes' = <<>>
       /\ (req[c].pc = "pp_ret" /\ req'[c].pc # "pp_ret" /\ req[c].data = NoList)
            => /\ req'[c].pc = "ret" /\ req'[c].res = "received"
               /\ req'[c].count = 0
               /\ bridge_processes' = <<>>]_vars

\* a non-list body has just emptied the store, which held the two records
\* of the previous submission (its bridge_update is still the last one)
C15_Witness ==
  /\ req[Worker].pc = "pp_emit" /\ req[Worker].data = NoList
  /\ bridge_processes = <<>>
  /\ emitted.bridge_update = [processes |-> <<"A", "B">>, count |-> 2]
  /\ received = <<"A", "B">>

\* the configuration in force: that of the engine, or the one
\* load_configuration gives the engine the first request will build
ConfigInForce(e, cfg) == IF e = None THEN DefaultConfig ELSE cfg[e]

\* C16: a POST /api/configuration whose body is no mapping (null) is
\* answered with 400 and success false, and the request leaves the
\* configuration, the running flag and the loop threads as they were.
\* (Every such request ends in the 400 answer: it never reaches the store of
\* save_configuration, and a request that does not reach it answers 400.)
C16_UnmergeableBodyRejected ==
  [][\A c \in Callers :
       /\ req'[c].pc = "cf_write" => req'[c].body # NoMapping
       /\ (req[c].pc \in {"idle", "call"} /\ req'[c].op = "cfg_post"
             /\ req'[c].pc \notin {"idle", "call", "new", "cf_write"})
            => /\ req'[c].pc = "ret" /\ req'[c].res = "error400"
               /\ UNCHANGED << engineVars, loopVars, emitted, lastSaved >>
       /\ (req[c].pc \in {"new", "call"} /\ req[c].op = "cfg_post"
             /\ req[c].body = NoMapping)
            => /\ ConfigInForce(detection_engine', config')
                    = ConfigInForce(detection_engine, config)
               /\ UNCHANGED << is_running, detection_thread, loopVars, emitted >>
               /\ req'[c].pc \in {"new", "call"}
                    \/ (req'[c].pc = "ret" /\ req'[c].res = "error400")
       /\ (req'[c].pc = "ret" /\ req'[c].op = "cfg_post" /\ req'[c].res = "saved")
            => req[c].pc \in {"ret", "cf_write"}]_vars

\* a null body was refused and the configuration still holds the FOV saved
\* by an earlier request
C16_Witness ==
  /\ req[Worker].pc = "ret" /\ req[Worker].op = "cfg_post"
  /\ req[Worker].res = "error400"
  /\ detection_engine # None
  /\ config[detection_engine]["FOV"] = Num(90)
  /\ lastSaved = config

\* C17: is_running and detection_thread of an engine change only in the
\* assignments of start_detection and stop_detection.  Configuration reads
\* and updates (also of a key named is_running), process submissions and
\* listings, status and health requests, and the steps of the loop threads
\* (failed ticks too) leave both as they are.
C17_OnlyStartStopSetFlag ==
  [][/\ (is_running' # is_running \/ detection_thread' # detection_thread)
          => \E c \in Callers :
               /\ req[c].op \in {"start", "stop"}
               /\ req[c].pc \in {"st_set", "st_new", "sp_clr"}
               /\ req'[c].pc # req[c].pc
     /\ \A c \in Callers :
          (req'[c] # req[c] /\ req[c].op \notin {"start", "stop"}
             /\ req'[c].op \notin {"start", "stop"})
            => UNCHANGED << is_running, detection_thread >>
     /\ \A t \in Threads :
          (thr'[t] # thr[t] /\ thr[t].pc \in AlivePcs)
            => UNCHANGED << is_running, detection_thread >>]_vars

\* a configuration with a key is_running (value false) was saved while the
\* engine is running, its loop thread alive, after a process submission
C17_Witness ==
  /\ req[Worker].pc = "ret" /\ req[Worker].res = "saved"
  /\ detection_engine # None
  /\ "is_running" \in DOMAIN config[detection_engine]
  /\ is_running[detection_engine]
  /\ LoopThreads(detection_engine) # {}
  /\ received = <<"C">>

\* C18: while is_running of its engine is false, a loop thread publishes
\* nothing but the detection_update of the tick it is inside: the publish
\* ends that tick and the thread enters no other tick as long as the flag
\* stays false, so at most one more update comes from it.  The tick in
\* flight is not cut short by the flag: it goes on step by step and reaches
\* its end (its sleep, or the error handler).
C18_AtMostOneLatePublish ==
  /\ [][\A t \in Threads :
          (thr[t].eng # None /\ ~is_running[thr[t].eng])
            => /\ (emitted' # emitted /\ thr'[t] # thr[t])
                    => /\ thr[t].pc = "emit"
                       /\ thr'[t].pc \in {"sleep", "except"}
                       /\ emitted'.detection_update = emitted.detection_update + 1
               /\ (thr[t].pc \notin TickPcs /\ ~is_running'[thr[t].eng])
                    => thr'[t].pc \notin TickPcs
               /\ (thr[t].pc \in TickPcs /\ thr'[t] # thr[t])
                    => thr'[t].pc \in TickPcs \cup {"sleep", "except"}]_vars
  /\ \A t \in Threads :
       (thr[t].pc \in TickPcs) ~> (thr[t].pc \in {"sleep", "except"})

\* stop has returned success, the flag is false, and the only loop thread is
\* about to publish the second tick, which was in flight
C18_Witness ==
  /\ threads = 1 /\ thr[1].pc = "emit"
  /\ ~is_running[thr[1].eng] /\ stopped[thr[1].eng]
  /\ ticks = 2 /\ emitted.detection_update = 1
  /\ req[Worker].pc = "idle"

\* C19: every batch _simulate_detection returns is empty or has 1 to 3
\* records; each record has label "person", a confidence in [0.75, 1.0],
\* x in [100, 1400], y in [100, 800], width in [100, 200], height in
\* [150, 250], and center (x + width div 2, y + height div 2).
C19_SimulatedBatchShape ==
  sim.pc \in {"ret", "selected"} =>
    /\ Len(sim.detections) \in 0 .. 3
    /\ sim.num # 0 => Len(sim.detections) = sim.num
    /\ \A i \in 1 .. Len(sim.detections) :
         LET d   == sim.detections[i]
             box == d.bounding_box
         IN  /\ d.label = "person"
             /\ d.confidence >= 75 /\ d.confidence <= 100
             /\ box.x >= 100 /\ box.x <= 1400
             /\ box.y >= 100 /\ box.y <= 800
             /\ box.width >= 100 /\ box.width <= 200
             /\ box.height >= 150 /\ box.height <= 250
             /\ d.center = [x |-> box.x + box.width \div 2,
                             y |-> box.y + box.height \div 2]

\* a batch of three records was returned: one at the largest x and y with
\* the widest and highest box, one with an odd width and an odd height
C19_Witness ==
  /\ sim.pc = "ret"
  /\ Len(sim.detections) = 3
  /\ sim.detections[1].bounding_box =
       [x |-> 1400, y |-> 800, width |-> 200, height |-> 250]
  /\ sim.detections[1].center = [x |-> 1500, y |-> 925]
  /\ sim.detections[2].bounding_box.width = 101
  /\ sim.detections[2].bounding_box.height = 151
  /\ sim.detections[2].center.x = sim.detections[2].bounding_box.x + 50
  /\ sim.detections[3].confidence = 75

\* C20: GET /api/status answers in one step with a snapshot: is_running is
\* the flag of the engine, or false when no engine exists; bridge_processes
\* is the length of the stored list and bridge_connected says whether that
\* length is above 0.  The request builds no engine and changes nothing of
\* the engine, the loop threads, the metrics or the stored list.
C20_StatusSnapshot ==
  [][\A c \in Callers :
       (req[c].pc = "idle" /\ req'[c].op = "status")
         => /\ req'[c].pc = "ret" /\ req'[c].res = "status"
            /\ req'[c].flag = IF detection_engine = None
                              THEN FALSE ELSE is_running[detection_engine]
            /\ req'[c].count = Len(bridge_processes)
            /\ req'[c].connected = (Len(bridge_processes) > 0)
            /\ UNCHANGED << engineVars, loopVars, bridge_processes, emitted,
                            lastSaved, stopped, received >>]_vars

\* a status was answered while the engine runs and two records are stored
C20_Witness ==
  /\ req[Worker].pc = "ret" /\ req[Worker].res = "status"
  /\ req[Worker].flag /\ req[Worker].count = 2 /\ req[Worker].connected
  /\ LoopThreads(detection_engine) # {}
  /\ Len(bridge_processes) = 2

\* C21: GET /health answers in one step with status "healthy", whether no
\* engine exists, the engine is Stopped or Running, or a loop thread is in
\* the pause of its error handler; the request changes nothing.
C21_HealthAlwaysHealthy ==
  [][\A c \in Callers :
       (req[c].pc = "idle" /\ req'[c].op = "health")
         => /\ req'[c].pc = "ret" /\ req'[c].res = "healthy"
            /\ UNCHANGED << engineVars, loopVars, bridge_processes, emitted,
                            lastSaved, stopped, received >>]_vars

\* health was answered "healthy" while the engine runs and its loop thread
\* is in the pause after a tick that raised
C21_Witness ==
  /\ req[Worker].pc = "ret" /\ req[Worker].op = "health"
  /\ req[Worker].res = "healthy"
  /\ detection_engine # None /\ is_running[detection_engine]
  /\ \E t \in Threads : thr[t].pc = "except" /\ thr[t].eng = detection_engine

\* C22: whenever no loop thread is inside a tick, total_detections equals
\* the number of records of all detection_update events published so far
\* (also after ticks that raised part-way).
C22_MetricsMatchPublished ==
  (\A t \in Threads : thr[t].pc \notin TickPcs)
    => detection_metrics.total_detections = emitted.records

\* C23: also when the first requests are handled concurrently, loop
\* threads run on at most one engine, every thread inside the loop runs on
\* the global engine (the one stop reaches), and save_configuration stores
\* into the global engine only.
C23_SingleEngine ==
  /\ Cardinality({e \in Engines : LoopThreads(e) # {}}) <= 1
  /\ \A t \in Threads : thr[t].pc \in AlivePcs => thr[t].eng = detection_engine
  /\ \A c \in Callers : req[c].pc = "cf_write" => req[c].self = detection_engine

\* C24: once the save_configuration calls in progress have stored their
\* result, the configuration holds the values of every call made so far,
\* whichever way the calls (with disjoint key sets) interleaved.
C24_NoLostConfigUpdate ==
  (\A c \in Callers : req[c].pc # "cf_write")
    => \A e \in Engines : config[e] = lastSaved[e]

=============================================================================
